---- MODULE Spec2Model ----
(***************************************************************************)
(* A model of src/src/Arguments.ts: the flag declaration registry, the     *)
(* resolver (#getRaw / #getFlagValue / getFlags / isHelpRequested), the    *)
(* convertors, the help renderer and the unload hook of keepProcessAlive.  *)
(*                                                                         *)
(* JavaScript values are tagged records.  A JavaScript string is a         *)
(* sequence of pieces: text the caller supplies (flag names, option keys,  *)
(* token values, descriptions) is held one character per piece, so that    *)
(* trim() and toLowerCase() work on it character by character; a literal   *)
(* of the code that is only ever concatenated is held as one piece.        *)
(***************************************************************************)
EXTENDS Integers, Sequences, FiniteSets, TLC

VARIABLES
    phase,             \* "new" before the constructor ran, "ready" after it
    flagOptions,       \* the constructor's argument: Object.entries order
    denoArgs,          \* what parse(Deno.args) yields for this process
    rawArgs,           \* this.#rawArgs
    flagDeclarations,  \* this.#flagDeclarations, a Map in insertion order
    desciprion,        \* this.#desciprion
    listeners,         \* 'unload' listeners registered on globalThis
    prompts,           \* messages prompt() has shown so far
    unloads,           \* 'unload' events dispatched so far
    calls,             \* keepProcessAlive calls made so far
    last,              \* the last operation: its name, argument, outcome
    memo               \* the outcome of the first getFlags call

vars == <<phase, flagOptions, denoArgs, rawArgs, flagDeclarations, desciprion,
          listeners, prompts, unloads, calls, last, memo>>

----------------------------------------------------------------------------
(* Bounds of the model.                                                    *)

MaxOptions == 2     \* keys of the flagOptions object
MaxArgs == 2        \* tokens parse(Deno.args) yields
MaxKeepAlive == 2   \* keepProcessAlive calls
MaxUnloads == 2     \* 'unload' events dispatched

----------------------------------------------------------------------------
(* JavaScript values.                                                      *)

Undefined == [t |-> "undefined"]
Null == [t |-> "null"]
Bool(b) == [t |-> "boolean", b |-> b]
Str(s) == [t |-> "string", s |-> s]
Num(n) == [t |-> "number", n |-> n]
NaN == [t |-> "number", nan |-> TRUE]
Fn(v) == [t |-> "function", returns |-> v]

Return(v) == [t |-> "return", value |-> v]
Throw(e, m) == [t |-> "throw", error |-> e, message |-> m]

----------------------------------------------------------------------------
(* Strings.                                                                *)

UpperCase == <<"A","B","C","D","E","F","G","H","I","J","K","L","M",
               "N","O","P","Q","R","S","T","U","V","W","X","Y","Z">>
LowerCase == <<"a","b","c","d","e","f","g","h","i","j","k","l","m",
               "n","o","p","q","r","s","t","u","v","w","x","y","z">>
Digits == <<"0","1","2","3","4","5","6","7","8","9">>
WhiteSpace == {" ", "\t", "\n"}

IndexOf(seq, c) ==
    IF \E i \in DOMAIN seq : seq[i] = c
    THEN CHOOSE i \in DOMAIN seq : seq[i] = c
    ELSE 0

toLowerCase(s) ==
    [i \in DOMAIN s |->
        IF IndexOf(UpperCase, s[i]) > 0
        THEN LowerCase[IndexOf(UpperCase, s[i])]
        ELSE s[i]]

RECURSIVE trimStart(_)
trimStart(s) ==
    IF s # <<>> /\ Head(s) \in WhiteSpace THEN trimStart(Tail(s)) ELSE s

RECURSIVE trimEnd(_)
trimEnd(s) ==
    IF s # <<>> /\ s[Len(s)] \in WhiteSpace
    THEN trimEnd(SubSeq(s, 1, Len(s) - 1))
    ELSE s

trim(s) == trimEnd(trimStart(s))

substring(s, from, to) == SubSeq(s, from + 1, IF to < Len(s) THEN to ELSE Len(s))

\* s.split('\n'): the lines of s, at least one
RECURSIVE split(_)
split(s) ==
    IF \E i \in DOMAIN s : s[i] = "\n"
    THEN LET i == CHOOSE k \in DOMAIN s :
                      s[k] = "\n" /\ \A j \in 1..(k - 1) : s[j] # "\n"
         IN <<SubSeq(s, 1, i - 1)>> \o split(SubSeq(s, i + 1, Len(s)))
    ELSE <<s>>

\* parts.join(sep)
RECURSIVE join(_, _)
join(parts, sep) ==
    IF parts = <<>> THEN <<>>
    ELSE IF Len(parts) = 1 THEN parts[1]
    ELSE parts[1] \o sep \o join(Tail(parts), sep)

\* ' '.repeat(n)
RECURSIVE repeat(_, _)
repeat(s, n) == IF n <= 0 THEN <<>> ELSE s \o repeat(s, n - 1)

\* `${v}` for the values a token carries
TemplateString(v) ==
    CASE v.t = "string" -> v.s
      [] v.t = "boolean" ->
            IF v.b THEN <<"t","r","u","e">> ELSE <<"f","a","l","s","e">>
      [] v.t = "null" -> <<"n","u","l","l">>
      [] OTHER -> <<"u","n","d","e","f","i","n","e","d">>

\* the value of a string of decimal digits
RECURSIVE DecimalValue(_)
DecimalValue(s) ==
    IF s = <<>> THEN 0
    ELSE 10 * DecimalValue(SubSeq(s, 1, Len(s) - 1))
         + (IndexOf(Digits, s[Len(s)]) - 1)

\* Number(v).  On strings: white space is trimmed, the empty string is 0, a
\* string of decimal digits is its value, and any other string over letters,
\* digits and white space is NaN (signs, fractions, exponents, radix
\* prefixes and "Infinity" are outside the strings the model draws).
Number(v) ==
    CASE v.t = "boolean" -> Num(IF v.b THEN 1 ELSE 0)
      [] v.t = "null" -> Num(0)
      [] v.t = "string" ->
            LET s == trim(v.s) IN
            IF \A i \in DOMAIN s : IndexOf(Digits, s[i]) > 0
            THEN Num(DecimalValue(s))
            ELSE NaN
      [] OTHER -> NaN

----------------------------------------------------------------------------
(* Convertors.                                                             *)

booleanConvertor(v) ==
    IF v = Undefined THEN Bool(FALSE)
    ELSE IF v = Null THEN Bool(FALSE)
    ELSE IF v = Bool(FALSE) THEN Bool(FALSE)
    ELSE IF v = Bool(TRUE) THEN Bool(TRUE)
    ELSE LET s == trim(toLowerCase(TemplateString(v))) IN
         IF s = <<"t","r","u","e">> THEN Bool(TRUE)
         ELSE IF s = <<"1">> THEN Bool(TRUE)
         ELSE Bool(TRUE)

stringConvertor(v) ==
    IF v = Undefined THEN Undefined ELSE Str(TemplateString(v))

numberConvertor(v) ==
    IF v = Undefined THEN Undefined ELSE Number(v)

\* dec.convertor(v), for the three convertors the class exports
Convert(convertor, v) ==
    CASE convertor = "booleanConvertor" -> booleanConvertor(v)
      [] convertor = "stringConvertor" -> stringConvertor(v)
      [] convertor = "numberConvertor" -> numberConvertor(v)

----------------------------------------------------------------------------
(* The declaration registry.                                               *)

helpFlagNames == << <<"h","e","l","p">>, <<"h">> >>

normalizeName(name) == toLowerCase(trim(name))

normalizeShortName(name) == substring(normalizeName(name), 0, 1)

Arr(items) == [t |-> "array", items |-> items]

\* the truthiness of an optional string option
Truthy(v) == v.t = "string" /\ v.s # <<>>

\* one entry of the first .map of createFlagDeclarations
Declaration(name, op) ==
    [longName |-> normalizeName(name),
     shortName |-> IF Truthy(op.shortName)
                   THEN Str(normalizeShortName(op.shortName.s))
                   ELSE Undefined,
     description |-> IF op.description.t = "string"
                     THEN Arr(split(trim(op.description.s)))
                     ELSE Undefined,
     default |-> op.default,
     convertor |-> op.convertor,
     excludeFromHelp |-> IF op.excludeFromHelp.t = "boolean"
                         THEN op.excludeFromHelp.b
                         ELSE FALSE]

\* Map.prototype.set: a key already present keeps its place and takes the
\* new value; a new key goes last
MapSet(m, k, v) ==
    IF \E i \in DOMAIN m : m[i].key = k
    THEN [i \in DOMAIN m |-> IF m[i].key = k THEN [key |-> k, value |-> v] ELSE m[i]]
    ELSE Append(m, [key |-> k, value |-> v])

\* new Map(entries)
RECURSIVE NewMap(_)
NewMap(entries) ==
    IF entries = <<>> THEN <<>>
    ELSE LET n == Len(entries) IN
         MapSet(NewMap(SubSeq(entries, 1, n - 1)), entries[n].key, entries[n].value)

MapHas(m, k) == \E i \in DOMAIN m : m[i].key = k

MapGet(m, k) == m[CHOOSE i \in DOMAIN m : m[i].key = k].value

MapKeys(m) == [i \in DOMAIN m |-> m[i].key]

createFlagDeclarations(options) ==
    NewMap([i \in DOMAIN options |->
              LET declaration == Declaration(options[i].name, options[i].op)
              IN [key |-> declaration.longName, value |-> declaration]])

\* the one entry of the object Arguments.createHelp() returns
createHelp ==
    [name |-> helpFlagNames[1],
     op |-> [convertor |-> "booleanConvertor",
             shortName |-> Str(helpFlagNames[2]),
             description |-> Str(<<"Show this help message.">>),
             default |-> Undefined,
             excludeFromHelp |-> Bool(TRUE)]]

----------------------------------------------------------------------------
(* The resolver.  An operation yields [outcome, trace]: what it returned   *)
(* or threw, and the convertors and default suppliers it invoked, in       *)
(* order.                                                                  *)

Called(fn, longName) == [fn |-> fn, of |-> longName]

Result(outcome, trace) == [outcome |-> outcome, trace |-> trace]

\* #getRaw(name, tag): the first token of that tag with that name
getRaw(args, name, tag) ==
    LET tagged == SelectSeq(args, LAMBDA arg : arg._tag = tag)
        found == {i \in DOMAIN tagged :
                    normalizeName(name) = normalizeName(tagged[i].name)}
    IN IF found = {} THEN Undefined
       ELSE tagged[CHOOSE i \in found : \A j \in found : i <= j]

notFoundMessage(name) ==
    <<"Argument \"">> \o name \o <<"\" is not declared.">>

\* dec.default?.() ?? undefined
CallDefault(dec) ==
    IF dec.default = Undefined THEN Result(Return(Undefined), <<>>)
    ELSE Result(Return(IF dec.default.returns = Null THEN Undefined
                       ELSE dec.default.returns),
                <<Called("default", dec.longName)>>)

\* the flag lookup of #getFlagValue (source line 137)
getRawFlag(args, dec) == getRaw(args, dec.longName, "Flag")

\* the key #getFlagValue looks the declaration up by: the name as written
\* (a lookup that skips the normalization)
declarationKeyRaw(name) == name

\* the key #getFlagValue looks the declaration up by (source line 134)
declarationKey(name) == normalizeName(name)

\* #getFlagValue(name)
getFlagValue(decls, args, name) ==
    IF ~MapHas(decls, declarationKey(name))
    THEN Result(Throw("Error", notFoundMessage(name)), <<>>)
    ELSE LET dec == MapGet(decls, declarationKey(name))
             flag == getRawFlag(args, dec)
         IN IF flag = Undefined
            THEN Result(Throw("Error", notFoundMessage(name)), <<>>)
            ELSE IF flag.value # Undefined
            THEN Result(Return(Convert(dec.convertor, flag.value)),
                        <<Called("convertor", dec.longName)>>)
            ELSE CallDefault(dec)

Obj(entries) == [t |-> "object", entries |-> entries]

\* the .map of getFlags over the first n keys: the entries so far, or the
\* first throw
RECURSIVE getFlagsEntries(_, _, _)
getFlagsEntries(decls, args, n) ==
    IF n = 0 THEN Result(Return(<<>>), <<>>)
    ELSE LET before == getFlagsEntries(decls, args, n - 1) IN
         IF before.outcome.t = "throw" THEN before
         ELSE LET longName == MapKeys(decls)[n]
                  r == getFlagValue(decls, args, longName)
              IN IF r.outcome.t = "throw"
                 THEN Result(r.outcome, before.trace \o r.trace)
                 ELSE Result(Return(Append(before.outcome.value,
                                           [key |-> longName,
                                            value |-> r.outcome.value])),
                             before.trace \o r.trace)

\* getFlags()
getFlagsResult(decls, args) ==
    LET r == getFlagsEntries(decls, args, Len(decls)) IN
    IF r.outcome.t = "throw" THEN r
    ELSE Result(Return(Obj(r.outcome.value)), r.trace)

\* isHelpRequested()
isHelpRequestedResult(decls, args) ==
    LET r == getFlagValue(decls, args, helpFlagNames[1]) IN
    IF r.outcome.t = "throw" THEN r
    ELSE Result(Return(Bool(r.outcome.value = Bool(TRUE))), r.trace)

----------------------------------------------------------------------------
(* The help renderer.                                                      *)

\* primary(s) and secondary(s) of helpers/colors.ts: s between the escape
\* sequences of a style, its content unchanged
primary(s) == <<"\\e[primary]">> \o s \o <<"\\e[reset]">>

secondary(s) == <<"\\e[secondary]">> \o s \o <<"\\e[reset]">>

RECURSIVE DecimalDigits(_)
DecimalDigits(n) ==
    IF n < 10 THEN <<Digits[n + 1]>>
    ELSE DecimalDigits(n \div 10) \o <<Digits[(n % 10) + 1]>>

\* Deno.inspect(v, { colors: true, compact: false }).split('\n') for the
\* primitive values the default suppliers of the model return
inspectLines(v) ==
    CASE v.t = "number" /\ "n" \in DOMAIN v ->
            << <<"\\e[yellow]">> \o DecimalDigits(v.n) \o <<"\\e[reset]">> >>
      [] v.t = "boolean" ->
            << <<"\\e[yellow]">> \o TemplateString(v) \o <<"\\e[reset]">> >>
      [] v.t = "string" ->
            << <<"\\e[green]", "\"">> \o v.s \o <<"\"", "\\e[reset]">> >>
      [] OTHER ->
            << <<"\\e[gray]">> \o TemplateString(v) \o <<"\\e[reset]">> >>

tab(n) == repeat(<<" ">>, (IF n > 1 THEN n ELSE 1) * 2)

\* names(indent) of a declaration's block
names(dec, indent) ==
    LET long == <<"-", "-">> \o dec.longName
        short == IF Truthy(dec.shortName) THEN <<"-">> \o dec.shortName.s ELSE <<>>
        shown == SelectSeq(<<long, short>>, LAMBDA n : n # <<>>)
    IN tab(indent) \o join([i \in DOMAIN shown |-> primary(shown[i])], <<",", " ">>)

\* description(indent) of a declaration's block; dec.description.map throws
\* a TypeError when the declaration has no description
descriptionLines(dec, indent) ==
    IF dec.description = Undefined
    THEN Throw("TypeError",
               <<"Cannot read properties of undefined (reading 'map')">>)
    ELSE Return(join([i \in DOMAIN dec.description.items |->
                         tab(indent) \o secondary(dec.description.items[i])],
                     <<"\n">>))

\* defaultValue(indent) of a declaration's block
defaultValue(dec, indent) ==
    IF dec.default = Undefined THEN Result(Return(<<>>), <<>>)
    ELSE Result(Return(tab(indent) \o secondary(<<"Default: ">>)
                       \o join(inspectLines(dec.default.returns),
                               <<"\n">> \o tab(indent + 2))),
                <<Called("default", dec.longName)>>)

\* the block of one visible declaration
block(dec) ==
    LET d == descriptionLines(dec, 2) IN
    IF d.t = "throw" THEN Result(d, <<>>)
    ELSE LET v == defaultValue(dec, 2)
             parts == SelectSeq(<<names(dec, 1), d.value, v.outcome.value>>,
                                LAMBDA x : x # <<>>)
         IN Result(Return(join(parts, <<"\n">>)), v.trace)

\* the declarations computeHelpMessage renders (source line 177)
visible(decls) ==
    SelectSeq([i \in DOMAIN decls |-> decls[i].value],
              LAMBDA dec : ~dec.excludeFromHelp)

\* the blocks of the first n visible declarations, or the first throw
RECURSIVE blocks(_, _)
blocks(decs, n) ==
    IF n = 0 THEN Result(Return(<<>>), <<>>)
    ELSE LET before == blocks(decs, n - 1) IN
         IF before.outcome.t = "throw" THEN before
         ELSE LET b == block(decs[n]) IN
              IF b.outcome.t = "throw"
              THEN Result(b.outcome, before.trace \o b.trace)
              ELSE Result(Return(Append(before.outcome.value, b.outcome.value)),
                          before.trace \o b.trace)

\* computeHelpMessage()
computeHelpMessage(decls, desc) ==
    LET decs == visible(decls)
        bs == blocks(decs, Len(decs))
    IN IF bs.outcome.t = "throw" THEN bs
       ELSE LET declarations == join(bs.outcome.value, <<"\n", "\n">>)
                description == IF desc = Null THEN <<>> ELSE desc.s
                sections == SelectSeq(<< <<"\n">> \o description,
                                         <<"\n">> \o declarations >>,
                                      LAMBDA x : trim(x) # <<>>)
            IN Result(Return(Str(join(sections, <<"\n">>))), bs.trace)

\* triggerHelp(): throw new InfoInterruption(this.computeHelpMessage())
triggerHelpResult(decls, desc) ==
    LET m == computeHelpMessage(decls, desc) IN
    IF m.outcome.t = "throw" THEN m
    ELSE Result(Throw("InfoInterruption", m.outcome.value.s), m.trace)

----------------------------------------------------------------------------
(* The unload hook.                                                        *)

\* the listener keepProcessAlive registers: { once: true }
Listener(message) == [message |-> message, once |-> TRUE]

\* what dispatching 'unload' shows: every registered listener prompts
dispatchPrompts(ls) == [i \in DOMAIN ls |-> ls[i].message]

\* a dispatch that removes no listener (the { once: true } option dropped)
afterDispatchKeep(ls) == ls

\* the listeners left after a dispatch: a once-listener is removed
afterDispatch(ls) == SelectSeq(ls, LAMBDA l : ~l.once)

----------------------------------------------------------------------------
(* The inputs the model draws.                                             *)

port == <<"p","o","r","t">>
flag == <<"f","l","a","g">>
name == <<"n","a","m","e">>

Option(n, op) == [name |-> n, op |-> op]

\* entries of the flagOptions object
portOption ==
    Option(port, [convertor |-> "numberConvertor",
                  shortName |-> Str(<<"p">>),
                  description |-> Str(<<"H","T","T","P",".">>),
                  default |-> Fn(Num(8080)),
                  excludeFromHelp |-> Undefined])

\* a key that normalizes to "port": no short name, description or default
bareOption ==
    Option(<<"P","o","r","t"," ">>,
           [convertor |-> "stringConvertor",
            shortName |-> Undefined,
            description |-> Undefined,
            default |-> Undefined,
            excludeFromHelp |-> Undefined])

flagOption ==
    Option(flag, [convertor |-> "booleanConvertor",
                  shortName |-> Str(<<" ","F","l">>),
                  description |-> Str(<<"O","n","\n","O","f","f"," ">>),
                  default |-> Fn(Bool(FALSE)),
                  excludeFromHelp |-> Bool(FALSE)])

\* hidden from the help, with a default
nameOption ==
    Option(name, [convertor |-> "stringConvertor",
                  shortName |-> Undefined,
                  description |-> Str(<<"W","h","o">>),
                  default |-> Fn(Str(<<"x">>)),
                  excludeFromHelp |-> Bool(TRUE)])

OptionPool == { createHelp, portOption, bareOption, flagOption, nameOption }

\* the declarations of the runs that interleave every public operation
FewOptions == { createHelp, portOption, bareOption }

Flag(n, v) == [_tag |-> "Flag", name |-> n, value |-> v]
Command(n) == [_tag |-> "Command", name |-> n, value |-> Undefined]

\* tokens of model/parse.ts: a Flag carries a string, true (bare presence)
\* or undefined; a Command carries its text
TokenPool ==
    { Flag(<<"P","o","r","t">>, Str(<<"9","0","9","0">>)),
      Flag(<<"p">>, Str(<<"8","0">>)),
      Flag(port, Undefined),
      Flag(helpFlagNames[1], Bool(TRUE)),
      Flag(helpFlagNames[2], Bool(TRUE)),
      Flag(flag, Str(<<"f","a","l","s","e">>)),
      Command(port) }

\* the two tokens of the runs that interleave every public operation
FewTokens ==
    { Flag(<<"P","o","r","t">>, Str(<<"9","0","9","0">>)),
      Flag(helpFlagNames[1], Bool(TRUE)) }

\* sequences over pool of at most n elements
SeqsUpTo(pool, n) == UNION {[1..k -> pool] : k \in 0..n}

\* the keys of an object are distinct
DistinctKeys(options) ==
    \A i, j \in DOMAIN options : options[i].name = options[j].name => i = j

\* names a caller may resolve
QueryNames ==
    { port, <<" ","P","O","R","T"," ">>, <<"p">>, <<"H","e","l","p">>,
      flag, <<"n","o","n","e">> }

\* arguments of setDesciprion
Descriptions == { <<" ","M","y"," ","a","p","p","\n">>, <<" ">> }

\* arguments of keepProcessAlive
DefaultMessage == <<"Press Enter key to exit the process...">>

Messages == { DefaultMessage, <<"Bye">> }

----------------------------------------------------------------------------
(* The state machine.                                                      *)

Op(op, arg, r) == [op |-> op, arg |-> arg, outcome |-> r.outcome, trace |-> r.trace]

Returned(v) == Result(Return(v), <<>>)

NoOutcome == [t |-> "none"]

InitWith(options, tokens) ==
    /\ phase = "new"
    /\ flagOptions \in {o \in SeqsUpTo(options, MaxOptions) : DistinctKeys(o)}
    /\ denoArgs \in SeqsUpTo(tokens, MaxArgs)
    /\ rawArgs = <<>>
    /\ flagDeclarations = <<>>
    /\ desciprion = Null
    /\ listeners = <<>>
    /\ prompts = <<>>
    /\ unloads = 0
    /\ calls = 0
    /\ last = Op("none", <<>>, Result(NoOutcome, <<>>))
    /\ memo = NoOutcome

\* new Arguments(flagOptions)
constructor ==
    /\ phase = "new"
    /\ phase' = "ready"
    /\ flagDeclarations' = createFlagDeclarations(flagOptions)
    /\ rawArgs' = denoArgs
    /\ last' = Op("constructor", <<>>, Returned(Undefined))
    /\ UNCHANGED <<flagOptions, denoArgs, desciprion, listeners, prompts,
                   unloads, calls, memo>>

Frame == UNCHANGED <<phase, flagOptions, denoArgs, rawArgs, flagDeclarations>>

NoHook == UNCHANGED <<listeners, prompts, unloads, calls>>

\* this.#getFlagValue(n), the private getter, on any name
resolve ==
    /\ phase = "ready"
    /\ \E n \in QueryNames :
          last' = Op("getFlagValue", n, getFlagValue(flagDeclarations, rawArgs, n))
    /\ Frame /\ NoHook /\ UNCHANGED <<desciprion, memo>>

\* memo: the outcome of the first getFlags call, and whether it was repeated
Memo(outcome) ==
    IF memo = NoOutcome THEN [outcome |-> outcome, repeated |-> FALSE]
    ELSE [memo EXCEPT !.repeated = TRUE]

getFlags ==
    /\ phase = "ready"
    /\ last' = Op("getFlags", <<>>, getFlagsResult(flagDeclarations, rawArgs))
    /\ memo' = Memo(last'.outcome)
    /\ Frame /\ NoHook /\ UNCHANGED desciprion

isHelpRequested ==
    /\ phase = "ready"
    /\ last' = Op("isHelpRequested", <<>>,
                  isHelpRequestedResult(flagDeclarations, rawArgs))
    /\ Frame /\ NoHook /\ UNCHANGED <<desciprion, memo>>

shouldHelp ==
    /\ phase = "ready"
    /\ last' = Op("shouldHelp", <<>>,
                  isHelpRequestedResult(flagDeclarations, rawArgs))
    /\ Frame /\ NoHook /\ UNCHANGED <<desciprion, memo>>

\* the description setDesciprion stores
trimmedDescription(description) == Str(trim(description))

setDesciprion ==
    /\ phase = "ready"
    /\ \E description \in Descriptions :
          /\ desciprion' = trimmedDescription(description)
          /\ last' = Op("setDesciprion", description, Returned(Undefined))
    /\ Frame /\ NoHook /\ UNCHANGED memo

\* a computeHelpMessage that stores the description it falls back to
\* (this.#desciprion ??= '' for this.#desciprion ?? '')
computeHelpStoring ==
    /\ phase = "ready"
    /\ last' = Op("computeHelpMessage", <<>>,
                  computeHelpMessage(flagDeclarations, desciprion))
    /\ desciprion' = IF desciprion = Null THEN Str(<<>>) ELSE desciprion
    /\ Frame /\ NoHook /\ UNCHANGED memo

computeHelp ==
    /\ phase = "ready"
    /\ last' = Op("computeHelpMessage", <<>>,
                  computeHelpMessage(flagDeclarations, desciprion))
    /\ Frame /\ NoHook /\ UNCHANGED <<desciprion, memo>>

triggerHelp ==
    /\ phase = "ready"
    /\ last' = Op("triggerHelp", <<>>,
                  triggerHelpResult(flagDeclarations, desciprion))
    /\ Frame /\ NoHook /\ UNCHANGED <<desciprion, memo>>

keepProcessAliveWith(messages) ==
    /\ phase = "ready"
    /\ calls < MaxKeepAlive
    /\ \E message \in messages :
          /\ listeners' = Append(listeners, Listener(message))
          /\ last' = Op("keepProcessAlive", message, Returned(Undefined))
    /\ calls' = calls + 1
    /\ Frame /\ UNCHANGED <<desciprion, prompts, unloads, memo>>

\* keepProcessAlive()
keepProcessAlive == keepProcessAliveWith({DefaultMessage})

\* keepProcessAlive(message)
keepProcessAliveMessage == keepProcessAliveWith(Messages)

\* the runtime dispatches 'unload' on globalThis
unload ==
    /\ phase = "ready"
    /\ unloads < MaxUnloads
    /\ unloads' = unloads + 1
    /\ prompts' = prompts \o dispatchPrompts(listeners)
    /\ listeners' = afterDispatch(listeners)
    /\ last' = Op("unload", <<>>, Returned(Arr(dispatchPrompts(listeners))))
    /\ Frame /\ UNCHANGED <<desciprion, calls, memo>>

----------------------------------------------------------------------------
(* Specifications.                                                         *)

\* every public operation of an instance, in any order
Init == InitWith(FewOptions, FewTokens)

Next ==
    \/ constructor
    \/ getFlags
    \/ isHelpRequested
    \/ shouldHelp
    \/ computeHelp
    \/ triggerHelp
    \/ setDesciprion
    \/ keepProcessAlive

Spec == Init /\ [][Next]_vars

\* the resolver, over every declaration and token of the pools
InitResolve == InitWith(OptionPool, TokenPool)

NextResolve ==
    \/ constructor
    \/ resolve
    \/ getFlags
    \/ isHelpRequested
    \/ shouldHelp

SpecResolve == InitResolve /\ [][NextResolve]_vars

\* the declaration lookup of the private getter and of isHelpRequested
InitLookup == InitWith(OptionPool, FewTokens)

NextLookup ==
    \/ constructor
    \/ resolve
    \/ isHelpRequested

SpecLookup == InitLookup /\ [][NextLookup]_vars

\* the help renderer, over every declaration of the pool
InitHelp == InitWith(OptionPool, {})

NextHelp ==
    \/ constructor
    \/ setDesciprion
    \/ computeHelp
    \/ triggerHelp

SpecHelp == InitHelp /\ [][NextHelp]_vars

\* the unload hook
InitAlive == InitWith({createHelp}, {})

NextAlive ==
    \/ constructor
    \/ keepProcessAliveMessage
    \/ unload

SpecAlive == InitAlive /\ [][NextAlive]_vars

----------------------------------------------------------------------------
(* What the claims speak of.                                               *)

Declared(n) == MapHas(flagDeclarations, normalizeName(n))

DecOf(n) == MapGet(flagDeclarations, normalizeName(n))

\* a Flag token named by the declaration's long name or by its short name
Matches(dec, token) ==
    /\ token._tag = "Flag"
    /\ \/ normalizeName(token.name) = dec.longName
       \/ dec.shortName # Undefined /\ normalizeName(token.name) = dec.shortName.s

Matching(dec) == {i \in DOMAIN rawArgs : Matches(dec, rawArgs[i])}

\* the first matching token, in token order
FirstMatch(dec) == rawArgs[CHOOSE i \in Matching(dec) : \A j \in Matching(dec) : i <= j]

\* what the default supplier of a declaration gives, undefined without one
DefaultOf(dec) ==
    IF dec.default = Undefined THEN Undefined ELSE dec.default.returns

Resolved(n) == last.op = "getFlagValue" /\ last.arg = n /\ Declared(n)

HelpAsked == last.op \in {"isHelpRequested", "shouldHelp"}

\* two option keys with one normalized long name
Collides(options) ==
    \E i, j \in DOMAIN options :
        i # j /\ normalizeName(options[i].name) = normalizeName(options[j].name)

Occurrences(s, sub) ==
    {i \in 1..(Len(s) - Len(sub) + 1) : SubSeq(s, i, i + Len(sub) - 1) = sub}

\* the line of a flag block that names the declaration
NamesLine(dec) == primary(<<"-", "-">> \o dec.longName)

\* the rendered help holds a block for the declaration
BlockEmitted(dec) ==
    /\ last.outcome.t = "return"
    /\ Occurrences(last.outcome.value.s, NamesLine(dec)) # {}

BlockAt(dec) ==
    CHOOSE i \in Occurrences(last.outcome.value.s, NamesLine(dec)) :
        \A j \in Occurrences(last.outcome.value.s, NamesLine(dec)) : i <= j

----------------------------------------------------------------------------
(* The claims.                                                             *)

\* C1: resolving a declared flag that no Flag token matches returns what the
\* default supplier gives, or undefined without one; it does not fail (and
\* isHelpRequested, with help declared and no matching token, returns).
C1_DefaultWhenNoToken ==
    /\ \A n \in QueryNames :
          Resolved(n) /\ Matching(DecOf(n)) = {}
              => last.outcome = Return(DefaultOf(DecOf(n)))
    /\ HelpAsked /\ Declared(helpFlagNames[1])
          /\ Matching(DecOf(helpFlagNames[1])) = {}
              => last.outcome.t = "return"

\* C2: resolving a name whose normalized form is no key of the declaration
\* mapping fails with the not-declared error before any convertor or default
\* supplier is invoked; and a name that differs from a declared key only by
\* case and surrounding white space finds the declaration (with a valued
\* long-name token in the arguments it resolves, it does not fail).
C2_NotDeclared ==
    /\ last.op = "getFlagValue" /\ ~Declared(last.arg)
          => /\ last.outcome = Throw("Error", notFoundMessage(last.arg))
             /\ last.trace = <<>>
    /\ HelpAsked /\ ~Declared(helpFlagNames[1])
          => /\ last.outcome = Throw("Error", notFoundMessage(helpFlagNames[1]))
             /\ last.trace = <<>>
    /\ last.op = "getFlagValue" /\ Declared(last.arg)
          /\ (\E i \in DOMAIN rawArgs :
                 /\ rawArgs[i]._tag = "Flag"
                 /\ normalizeName(rawArgs[i].name) = normalizeName(last.arg)
                 /\ rawArgs[i].value # Undefined)
          => last.outcome.t = "return"

\* an undeclared name was resolved, with two declarations registered, and
\* the not-declared error came out
C2_Witness ==
    /\ last.op = "getFlagValue"
    /\ ~Declared(last.arg)
    /\ Len(flagDeclarations) = 2
    /\ last.outcome.t = "throw"

\* C3: the token a declared flag resolves from is the first Flag token, in
\* token order, named by the declaration's long name or by its short name:
\* its value goes through the convertor (the default when it is undefined).
C3_FirstLongOrShortMatch ==
    \A n \in QueryNames :
        Resolved(n) /\ Matching(DecOf(n)) # {}
            => last.outcome =
                 Return(IF FirstMatch(DecOf(n)).value # Undefined
                        THEN Convert(DecOf(n).convertor, FirstMatch(DecOf(n)).value)
                        ELSE DefaultOf(DecOf(n)))

\* C4: a flag declared with booleanConvertor whose matching Flag token is a
\* bare presence (value true) resolves to true, and isHelpRequested returns
\* true when help is declared and a bare help token matches it.
C4_BareBooleanIsTrue ==
    /\ \A n \in QueryNames :
          Resolved(n) /\ DecOf(n).convertor = "booleanConvertor"
              /\ Matching(DecOf(n)) # {}
              /\ FirstMatch(DecOf(n)).value = Bool(TRUE)
              => last.outcome = Return(Bool(TRUE))
    /\ HelpAsked /\ Declared(helpFlagNames[1])
          /\ DecOf(helpFlagNames[1]).convertor = "booleanConvertor"
          /\ Matching(DecOf(helpFlagNames[1])) # {}
          /\ FirstMatch(DecOf(helpFlagNames[1])).value = Bool(TRUE)
          => last.outcome = Return(Bool(TRUE))

\* C5: computeHelpMessage emits the block of a declaration if and only if
\* its excludeFromHelp is false, the blocks in registry order, and invokes
\* the default supplier of no excluded declaration.
C5_BlocksIffVisible ==
    last.op = "computeHelpMessage" =>
        /\ \A i \in DOMAIN flagDeclarations :
              BlockEmitted(flagDeclarations[i].value)
                  <=> ~flagDeclarations[i].value.excludeFromHelp
        /\ \A i, j \in DOMAIN flagDeclarations :
              i < j /\ BlockEmitted(flagDeclarations[i].value)
                    /\ BlockEmitted(flagDeclarations[j].value)
                  => BlockAt(flagDeclarations[i].value)
                         < BlockAt(flagDeclarations[j].value)
        /\ \A i \in DOMAIN flagDeclarations :
              flagDeclarations[i].value.excludeFromHelp
                  => \A k \in DOMAIN last.trace :
                         last.trace[k] # Called("default", flagDeclarations[i].key)

\* C6: constructing from options in which two keys normalize to one long
\* name is reported as an error at construction time.
C6_CollisionRejected ==
    last.op = "constructor" /\ Collides(flagOptions)
        => last.outcome.t = "throw"

\* C7: triggerHelp raises the help interruption whose message is the string
\* computeHelpMessage renders, and never another kind of error.
C7_TriggerHelpInterrupts ==
    last.op = "triggerHelp" =>
        /\ last.outcome.t = "throw"
        /\ last.outcome.error = "InfoInterruption"
        /\ computeHelpMessage(flagDeclarations, desciprion).outcome.t = "return"
        /\ last.outcome.message =
               computeHelpMessage(flagDeclarations, desciprion).outcome.value.s

\* C8: after construction no operation changes the parsed tokens or the
\* declaration mapping, the description changes only through setDesciprion,
\* and every getFlags call gives the outcome the first one gave.
C8_Frame ==
    [][phase = "ready" =>
          /\ rawArgs' = rawArgs
          /\ flagDeclarations' = flagDeclarations
          /\ (desciprion' # desciprion => last'.op = "setDesciprion")
          /\ (last'.op = "getFlags" => last'.outcome = memo'.outcome)]_vars

\* getFlags was called again, and returned, after the description was set
\* and a hook was registered
C8_Witness ==
    /\ last.op = "getFlags"
    /\ last.outcome.t = "return"
    /\ memo # NoOutcome
    /\ memo.repeated
    /\ desciprion # Null
    /\ calls > 0

\* C9: resolving a boolean flag from a token that carries a string gives true
\* for "true" and "1" (case-insensitive, trimmed), false for "false" and
\* "0", and never true for another string; a bare presence gives true.
C9_BooleanStrings ==
    \A n \in QueryNames :
        Resolved(n) /\ DecOf(n).convertor = "booleanConvertor"
            /\ getRawFlag(rawArgs, DecOf(n)) # Undefined
            => LET v == getRawFlag(rawArgs, DecOf(n)).value
                   s == IF v.t = "string" THEN toLowerCase(trim(v.s)) ELSE <<>>
               IN /\ v = Bool(TRUE) => last.outcome = Return(Bool(TRUE))
                  /\ v.t = "string" /\ s \in { <<"t","r","u","e">>, <<"1">> }
                        => last.outcome = Return(Bool(TRUE))
                  /\ v.t = "string" /\ s \in { <<"f","a","l","s","e">>, <<"0">> }
                        => last.outcome = Return(Bool(FALSE))
                  /\ v.t = "string"
                        /\ s \notin { <<"t","r","u","e">>, <<"1">>,
                                       <<"f","a","l","s","e">>, <<"0">> }
                        => last.outcome # Return(Bool(TRUE))

\* C10 as stated: no prompt before the unload event, and one dispatch of it
\* shows the prompt at most once, however many keepProcessAlive calls were
\* made.
C10_AtMostOnePrompt ==
    /\ unloads = 0 => prompts = <<>>
    /\ last.op = "unload" => Len(last.outcome.value.items) <= 1

\* C10 as amended: no prompt before the unload event; every keepProcessAlive
\* call registers a hook of its own, which prompts once, at the first unload
\* event after the call, and never again: the hooks still registered and the
\* prompts shown add up to the calls made, and none is left after a dispatch.
C10_OncePerCall ==
    /\ unloads = 0 => prompts = <<>>
    /\ Len(prompts) + Len(listeners) = calls
    /\ last.op = "unload" => listeners = <<>>

\* a second unload event that showed nothing, after the first showed the
\* prompts of two calls
C10_Witness ==
    /\ last.op = "unload"
    /\ unloads = 2
    /\ calls = 2
    /\ Len(prompts) = 2
    /\ last.outcome.value.items = <<>>

====
